---- MODULE Spec2Model ----
(***************************************************************************)
(* The fredb binding of go-ycsb (db/fredb/db.go): a table-scoped record    *)
(* store over an embedded ordered transactional key-value engine.          *)
(*                                                                         *)
(* State: the committed content of the engine (buckets), the record of the *)
(* store call that has just returned (last), the committed content when    *)
(* that call began (pre), and the set of (table, key) pairs that were      *)
(* deleted and not inserted since (deleted).                               *)
(*                                                                         *)
(* Every store call is one action: it runs the whole handler, that is the  *)
(* transaction callback followed by the engine's commit or rollback.       *)
(*                                                                         *)
(* The concurrent part (SpecConc) runs the same callbacks for two threads  *)
(* sharing the store: pc is each thread's position in its call, call its   *)
(* arguments and results, view the content its transaction works on,       *)
(* writer the thread holding the engine's read-write transaction, borrowed *)
(* the buffer a thread holds from the pool and pending the buffer it has   *)
(* handed to the engine in a transaction not yet committed or rolled back. *)
(***************************************************************************)
EXTENDS Integers, Sequences, FiniteSets, TLC

VARIABLES buckets, pre, last, deleted, pc, call, view, writer, borrowed,
          pending

\* The state of the concurrent clients (threads of the workload).
concVars == <<pc, call, view, writer, borrowed, pending>>

vars == <<buckets, pre, last, deleted, pc, call, view, writer, borrowed,
          pending>>

----------------------------------------------------------------------------
(* Domains the calls draw their inputs from.                               *)

\* Table names.  No table exists when the store is opened on an empty path,
\* so every table is a nonexistent table until the first Insert into it.
Tables == {"tbl"}

\* Keys are byte strings, which the engine orders bytewise: "1", "10", "2".
Keys == {<<1>>, <<1, 0>>, <<2>>}

\* Field names known to the row codec and byte-string values.
Fields == {"field0", "field1"}
Values == {"a", "b"}

\* Largest count a Scan asks for.
MaxCount == 2

\* Longest key list a batch call is given.
MaxBatch == 2

\* Go's map[string][]byte: a function from some of the field names.
FieldMaps == UNION {[D -> Values] : D \in SUBSET Fields}
NonEmptyMaps == {m \in FieldMaps : DOMAIN m # {}}

\* The field maps the batch calls draw from: one field each, enough to
\* write a field, to overwrite it, and to add a second field beside it.
BatchMaps == {[field0 |-> "a"], [field0 |-> "b"], [field1 |-> "b"]}

\* The keys and the key lists the batch calls draw from (a key may repeat).
\* BatchDelete draws from the lists of all keys, so that it meets keys that
\* were never written.
BatchKeys == {<<1>>, <<2>>}
KeyLists == UNION {[1..n -> BatchKeys] : n \in 1..MaxBatch}
DeleteKeyLists == UNION {[1..n -> Keys] : n \in 1..MaxBatch}

\* Go's []string of field names: nil/empty, or names without repetition.
FieldLists ==
    {s \in UNION {[1..n -> Fields] : n \in 0..Cardinality(Fields)} :
        \A i, j \in DOMAIN s : i # j => s[i] # s[j]}

\* A Go map result that may be nil: <<>> is nil, <<m>> is the map m.
NilMap == <<>>
Some(m) == <<m>>

\* The errors a call returns.
ErrNil == "nil"
TableNotFound == "table not found"
KeyNotFound == "key not found"
CodecError == "codec error"
EngineError == "engine error"

\* What the collaborators can be made to do in one call: nothing unusual,
\* or the named step reports an error.
NoFault == "none"
EncodeFault == "encode"
DecodeFault == "decode"
PutFault == "put"
CreateFault == "create"
DeleteFault == "delete"

----------------------------------------------------------------------------
(* The row codec: util.RowCodec.                                           *)

\* The field names the codec knows, in the codec's field order: a row lists
\* its columns in this order.
CodecFields ==
    <<"field0", "field1", "field2", "field3", "field4", "field5", "field6",
      "field7", "field8", "field9">>

CodecNames == {CodecFields[n] : n \in DOMAIN CodecFields}

\* The column of field f, counted from 0.
FieldIndex(f) == (CHOOSE n \in DOMAIN CodecFields : CodecFields[n] = f) - 1

FieldOfIndex(i) == CodecFields[i + 1]

RECURSIVE EncodeCols(_, _)
EncodeCols(m, i) ==
    IF i >= Len(CodecFields) THEN <<>>
    ELSE IF FieldOfIndex(i) \in DOMAIN m
         THEN <<<<i, m[FieldOfIndex(i)]>>>> \o EncodeCols(m, i + 1)
         ELSE EncodeCols(m, i + 1)

\* Encode(buf, values): appends the columns of values to buf; a map with a
\* name the codec does not know cannot be encoded.
Encode(buf, values, fault) ==
    IF fault = EncodeFault \/ ~(DOMAIN values \subseteq CodecNames)
    THEN [err |-> CodecError, row |-> <<>>]
    ELSE [err |-> ErrNil, row |-> buf \o EncodeCols(values, 0)]

\* The value a row holds for column i, as a set of at most one value.
ColValue(row, i) == {row[n][2] : n \in {x \in DOMAIN row : row[x][1] = i}}

\* Decode(row, fields): the columns of the row, all of them when fields is
\* empty, else those named in fields that the row has.
Decode(row, fields, fault) ==
    IF fault = DecodeFault
    THEN [err |-> CodecError, m |-> NilMap]
    ELSE LET cols == {FieldOfIndex(row[n][1]) : n \in DOMAIN row}
             have == IF Len(fields) = 0 THEN cols
                     ELSE {fields[n] : n \in DOMAIN fields} \cap cols
         IN  [err |-> ErrNil,
              m |-> Some([f \in have |->
                            CHOOSE v \in ColValue(row, FieldIndex(f)) : TRUE])]

----------------------------------------------------------------------------
(* The engine: buckets of ordered key/row pairs inside a transaction.      *)
(* A transaction's view tx is a function from the existing table names to  *)
(* functions from the present keys to rows.                                *)

NoBuckets == [t \in {} |-> <<>>]
EmptyBucket == [k \in {} |-> <<>>]

\* tx.Bucket(name) # nil
HasBucket(tx, table) == table \in DOMAIN tx

\* tx.CreateBucketIfNotExists(name): the error and the transaction's
\* content.
CreateBucketIfNotExists(tx, table, fault) ==
    IF fault = CreateFault THEN [err |-> EngineError, tx |-> tx]
    ELSE IF table \in DOMAIN tx THEN [err |-> ErrNil, tx |-> tx]
    ELSE [err |-> ErrNil,
          tx |-> [t \in DOMAIN tx \cup {table} |->
                    IF t = table THEN EmptyBucket ELSE tx[t]]]

\* bucket.Get(key) # nil
HasKey(tx, table, key) == key \in DOMAIN tx[table]

\* bucket.Get(key)
Get(tx, table, key) == tx[table][key]

\* bucket.Put(key, row)
Put(tx, table, key, row, fault) ==
    IF fault = PutFault
    THEN [err |-> EngineError, tx |-> tx]
    ELSE [err |-> ErrNil,
          tx |-> [tx EXCEPT ![table] =
                    [k \in DOMAIN @ \cup {key} |->
                        IF k = key THEN row ELSE @[k]]]]

\* bucket.Delete(key): the error and the transaction's content.  A key the
\* bucket does not hold is no error.
BucketDelete(tx, table, key, fault) ==
    IF fault = DeleteFault THEN [err |-> EngineError, tx |-> tx]
    ELSE [err |-> ErrNil,
          tx |-> [tx EXCEPT ![table] = [k \in DOMAIN @ \ {key} |-> @[k]]]]

\* Bytewise order of keys: a < b.
RECURSIVE KeyLess(_, _)
KeyLess(a, b) ==
    IF Len(b) = 0 THEN FALSE
    ELSE IF Len(a) = 0 THEN TRUE
    ELSE IF Head(a) # Head(b) THEN Head(a) < Head(b)
    ELSE KeyLess(Tail(a), Tail(b))

\* The least key of a non-empty set of keys.
MinKey(S) == CHOOSE k \in S : \A o \in S : o = k \/ KeyLess(k, o)

\* cursor.Seek(start): the keys at or after start, <<>> when there is none,
\* else <<k>> for the first of them.
Seek(tx, table, start) ==
    LET S == {k \in DOMAIN tx[table] : ~KeyLess(k, start)}
    IN  IF S = {} THEN <<>> ELSE <<MinKey(S)>>

\* cursor.Next() from key cur.
CursorNext(tx, table, cur) ==
    LET S == {k \in DOMAIN tx[table] : KeyLess(cur, k)}
    IN  IF S = {} THEN <<>> ELSE <<MinKey(S)>>

\* db.View(fn): a read-only transaction never changes the committed state.
\* db.Update(fn): commit fn's writes iff fn returned no error.
RunUpdate(committed, r) == IF r.err = ErrNil THEN r.tx ELSE committed

----------------------------------------------------------------------------
(* The transaction callbacks of the store calls.                           *)

\* Read as it would be if it decoded the whole row whatever the filter.
ReadFnIgnoresFields(tx, table, key, fields, fault) ==
    IF ~HasBucket(tx, table) THEN [err |-> TableNotFound, m |-> NilMap]
    ELSE IF ~HasKey(tx, table, key) THEN [err |-> KeyNotFound, m |-> NilMap]
    ELSE Decode(Get(tx, table, key), <<>>, fault)

\* Read's callback: the error and the map m.
ReadFn(tx, table, key, fields, fault) ==
    IF ~HasBucket(tx, table) THEN [err |-> TableNotFound, m |-> NilMap]
    ELSE IF ~HasKey(tx, table, key) THEN [err |-> KeyNotFound, m |-> NilMap]
    ELSE Decode(Get(tx, table, key), fields, fault)

\* Scan's loop from cursor position cur (<<>> or <<key>>) and index i.
\* seen is the sequence of keys whose rows were stored in res.
RECURSIVE ScanLoop(_, _, _, _, _, _, _, _, _)
ScanLoop(tx, table, cur, i, count, fields, res, seen, fault) ==
    IF cur = <<>> \/ i >= count
    THEN [err |-> ErrNil, res |-> res, seen |-> seen]
    ELSE LET d == Decode(Get(tx, table, cur[1]), fields, fault)
         IN  IF d.err # ErrNil
             THEN [err |-> d.err, res |-> res, seen |-> seen]
             ELSE ScanLoop(tx, table, CursorNext(tx, table, cur[1]), i + 1,
                           count, fields, [res EXCEPT ![i + 1] = d.m],
                           Append(seen, cur[1]), fault)

\* Scan as it would be if the cursor started at the table's first key
\* instead of seeking to the start key.
ScanFnFromFirst(tx, table, startKey, count, fields, fault) ==
    LET res == [n \in 1..count |-> NilMap]
    IN  IF ~HasBucket(tx, table)
        THEN [err |-> TableNotFound, res |-> res, seen |-> <<>>]
        ELSE ScanLoop(tx, table,
                      IF DOMAIN tx[table] = {} THEN <<>>
                      ELSE <<MinKey(DOMAIN tx[table])>>,
                      0, count, fields, res, <<>>, fault)

\* Scan as it would be if it returned only the entries it filled.
ScanFnTruncates(tx, table, startKey, count, fields, fault) ==
    LET res == [n \in 1..count |-> NilMap]
    IN  IF ~HasBucket(tx, table)
        THEN [err |-> TableNotFound, res |-> res, seen |-> <<>>]
        ELSE LET r == ScanLoop(tx, table, Seek(tx, table, startKey), 0,
                               count, fields, res, <<>>, fault)
             IN  [r EXCEPT !.res = SubSeq(r.res, 1, Len(r.seen))]

\* Scan's callback, with res == make([]map[string][]byte, count).
ScanFn(tx, table, startKey, count, fields, fault) ==
    LET res == [n \in 1..count |-> NilMap]
    IN  IF ~HasBucket(tx, table)
        THEN [err |-> TableNotFound, res |-> res, seen |-> <<>>]
        ELSE ScanLoop(tx, table, Seek(tx, table, startKey), 0, count,
                      fields, res, <<>>, fault)

\* The merge as it would be if Update replaced the record by the changes.
OverlayReplaces(data, values) == values

\* Update's merge loop: data[field] = value for every entry of values.
Overlay(data, values) ==
    [f \in DOMAIN data \cup DOMAIN values |->
        IF f \in DOMAIN values THEN values[f] ELSE data[f]]

\* Update as it would be if it looked the key up before checking that the
\* table exists, taking a missing table for an empty one.
UpdateFnKeyFirst(tx, table, key, values, fault) ==
    IF ~HasBucket(tx, table) \/ ~HasKey(tx, table, key)
    THEN [err |-> KeyNotFound, tx |-> tx]
    ELSE LET d == Decode(Get(tx, table, key), <<>>, fault)
         IN  IF d.err # ErrNil THEN [err |-> d.err, tx |-> tx]
             ELSE LET e == Encode(<<>>, Overlay(d.m[1], values), fault)
                  IN  IF e.err # ErrNil THEN [err |-> e.err, tx |-> tx]
                      ELSE Put(tx, table, key, e.row, fault)

\* Update as it would be if it encoded and wrote the change set instead of
\* the merged record.
UpdateFnWritesChanges(tx, table, key, values, fault) ==
    IF ~HasBucket(tx, table) THEN [err |-> TableNotFound, tx |-> tx]
    ELSE IF ~HasKey(tx, table, key) THEN [err |-> KeyNotFound, tx |-> tx]
    ELSE LET d == Decode(Get(tx, table, key), <<>>, fault)
         IN  IF d.err # ErrNil THEN [err |-> d.err, tx |-> tx]
             ELSE LET e == Encode(<<>>, values, fault)
                  IN  IF e.err # ErrNil THEN [err |-> e.err, tx |-> tx]
                      ELSE Put(tx, table, key, e.row, fault)

\* Update's callback: the error and the transaction's content.
UpdateFn(tx, table, key, values, fault) ==
    IF ~HasBucket(tx, table) THEN [err |-> TableNotFound, tx |-> tx]
    ELSE IF ~HasKey(tx, table, key) THEN [err |-> KeyNotFound, tx |-> tx]
    ELSE LET d == Decode(Get(tx, table, key), <<>>, fault)
         IN  IF d.err # ErrNil THEN [err |-> d.err, tx |-> tx]
             ELSE LET e == Encode(<<>>, Overlay(d.m[1], values), fault)
                  IN  IF e.err # ErrNil THEN [err |-> e.err, tx |-> tx]
                      ELSE Put(tx, table, key, e.row, fault)

\* Insert as it would be if it wrote the pooled buffer it acquired instead
\* of the slice Encode returned.
InsertFnStaleBuf(tx, table, key, values, fault) ==
    LET created == CreateBucketIfNotExists(tx, table, fault)
        e == Encode(<<>>, values, fault)
    IN  IF created.err # ErrNil THEN [err |-> created.err, tx |-> tx]
        ELSE IF e.err # ErrNil THEN [err |-> e.err, tx |-> created.tx]
        ELSE Put(created.tx, table, key, <<>>, fault)

\* Insert as it would be if it dropped the error of Encode.
InsertFnSwallowsError(tx, table, key, values, fault) ==
    LET created == CreateBucketIfNotExists(tx, table, fault)
        e == Encode(<<>>, values, fault)
    IN  IF created.err # ErrNil THEN [err |-> created.err, tx |-> tx]
        ELSE IF e.err # ErrNil THEN [err |-> ErrNil, tx |-> created.tx]
        ELSE Put(created.tx, table, key, e.row, fault)

\* Insert as it would be if it read the prior row and merged the new fields
\* into it, the way Update does.
InsertFnMerges(tx, table, key, values, fault) ==
    LET created == CreateBucketIfNotExists(tx, table, fault)
        d == IF created.err = ErrNil /\ HasKey(created.tx, table, key)
             THEN Decode(Get(created.tx, table, key), <<>>, NoFault).m[1]
             ELSE <<>>
        e == Encode(<<>>, Overlay(d, values), fault)
    IN  IF created.err # ErrNil THEN [err |-> created.err, tx |-> tx]
        ELSE IF e.err # ErrNil THEN [err |-> e.err, tx |-> created.tx]
        ELSE Put(created.tx, table, key, e.row, fault)

\* Insert as it would be if it resolved the table the way Update does.
InsertFnNoCreate(tx, table, key, values, fault) ==
    IF ~HasBucket(tx, table) THEN [err |-> TableNotFound, tx |-> tx]
    ELSE LET e == Encode(<<>>, values, fault)
         IN  IF e.err # ErrNil THEN [err |-> e.err, tx |-> tx]
             ELSE Put(tx, table, key, e.row, fault)

\* Insert's callback: CreateBucketIfNotExists (its error returned at once),
\* Encode (its error returned), bucket.Put.
InsertFn(tx, table, key, values, fault) ==
    LET created == CreateBucketIfNotExists(tx, table, fault)
        e == Encode(<<>>, values, fault)
    IN  IF created.err # ErrNil THEN [err |-> created.err, tx |-> tx]
        ELSE IF e.err # ErrNil THEN [err |-> e.err, tx |-> created.tx]
        ELSE Put(created.tx, table, key, e.row, fault)

\* Delete as it would be if it resolved the table the way Insert does.
DeleteFnCreatesBucket(tx, table, key, fault) ==
    BucketDelete(CreateBucketIfNotExists(tx, table, NoFault).tx, table, key,
                 fault)

\* Delete as it would be if it returned before removing the key.
DeleteFnKeepsKey(tx, table, key, fault) == [err |-> ErrNil, tx |-> tx]

\* Delete as it would be if it dropped a table when its last key goes.
DeleteFnDropsEmptyBucket(tx, table, key, fault) ==
    IF ~HasBucket(tx, table) THEN [err |-> ErrNil, tx |-> tx]
    ELSE LET after == BucketDelete(tx, table, key, fault)
         IN  [err |-> after.err,
              tx |-> IF DOMAIN after.tx[table] = {}
                     THEN [t \in DOMAIN after.tx \ {table} |-> after.tx[t]]
                     ELSE after.tx]

\* Delete's callback: nil when the table does not exist, else what
\* bucket.Delete returns.
DeleteFn(tx, table, key, fault) ==
    IF ~HasBucket(tx, table) THEN [err |-> ErrNil, tx |-> tx]
    ELSE BucketDelete(tx, table, key, fault)

----------------------------------------------------------------------------
(* The batch calls: the single-record steps over a key list, inside one    *)
(* transaction.  The step at index faultAt (if any) meets the fault.       *)

FaultFor(i, faultAt, fault) == IF i = faultAt THEN fault ELSE NoFault

\* BatchInsert's callback from index i on.
RECURSIVE BatchInsertFn(_, _, _, _, _, _, _)
BatchInsertFn(tx, table, keys, valueList, i, faultAt, fault) ==
    IF i > Len(keys) THEN [err |-> ErrNil, tx |-> tx]
    ELSE LET r == InsertFn(tx, table, keys[i], valueList[i],
                           FaultFor(i, faultAt, fault))
         IN  IF r.err # ErrNil THEN r
             ELSE BatchInsertFn(r.tx, table, keys, valueList, i + 1,
                                faultAt, fault)

\* BatchUpdate's callback from index i on.
RECURSIVE BatchUpdateFn(_, _, _, _, _, _, _)
BatchUpdateFn(tx, table, keys, valueList, i, faultAt, fault) ==
    IF i > Len(keys) THEN [err |-> ErrNil, tx |-> tx]
    ELSE LET r == UpdateFn(tx, table, keys[i], valueList[i],
                           FaultFor(i, faultAt, fault))
         IN  IF r.err # ErrNil THEN r
             ELSE BatchUpdateFn(r.tx, table, keys, valueList, i + 1,
                                faultAt, fault)

\* BatchDelete as it would be if a step failed, the way Read does, on a key
\* the table does not hold.
RECURSIVE BatchDeleteFnStrict(_, _, _, _, _, _)
BatchDeleteFnStrict(tx, table, keys, i, faultAt, fault) ==
    IF i > Len(keys) THEN [err |-> ErrNil, tx |-> tx]
    ELSE IF ~HasBucket(tx, table) THEN [err |-> ErrNil, tx |-> tx]
    ELSE IF ~HasKey(tx, table, keys[i]) THEN [err |-> KeyNotFound, tx |-> tx]
    ELSE LET r == DeleteFn(tx, table, keys[i], FaultFor(i, faultAt, fault))
         IN  IF r.err # ErrNil THEN r
             ELSE BatchDeleteFnStrict(r.tx, table, keys, i + 1, faultAt,
                                      fault)

\* BatchDelete's callback from index i on.
RECURSIVE BatchDeleteFn(_, _, _, _, _, _)
BatchDeleteFn(tx, table, keys, i, faultAt, fault) ==
    IF i > Len(keys) THEN [err |-> ErrNil, tx |-> tx]
    ELSE LET r == DeleteFn(tx, table, keys[i], FaultFor(i, faultAt, fault))
         IN  IF r.err # ErrNil THEN r
             ELSE BatchDeleteFn(r.tx, table, keys, i + 1, faultAt, fault)

\* BatchRead as it would be if it put each map in front of the earlier ones.
RECURSIVE BatchReadFnReversed(_, _, _, _, _, _, _, _)
BatchReadFnReversed(tx, table, keys, fields, i, res, faultAt, fault) ==
    IF i > Len(keys) THEN [err |-> ErrNil, res |-> res]
    ELSE LET r == ReadFn(tx, table, keys[i], fields,
                         FaultFor(i, faultAt, fault))
         IN  IF r.err # ErrNil THEN [err |-> r.err, res |-> <<>>]
             ELSE BatchReadFnReversed(tx, table, keys, fields, i + 1,
                                      <<r.m>> \o res, faultAt, fault)

\* BatchRead's callback from index i on: res holds the maps read so far; a
\* failing key gives the error and no results.
RECURSIVE BatchReadFn(_, _, _, _, _, _, _, _)
BatchReadFn(tx, table, keys, fields, i, res, faultAt, fault) ==
    IF i > Len(keys) THEN [err |-> ErrNil, res |-> res]
    ELSE LET r == ReadFn(tx, table, keys[i], fields,
                         FaultFor(i, faultAt, fault))
         IN  IF r.err # ErrNil THEN [err |-> r.err, res |-> <<>>]
             ELSE BatchReadFn(tx, table, keys, fields, i + 1,
                              Append(res, r.m), faultAt, fault)

----------------------------------------------------------------------------
(* The store calls.                                                        *)

\* The record of a call: its name, arguments, error and results.
NoCall ==
    [op |-> "none", table |-> "", key |-> <<>>, fields |-> <<>>, count |-> 0,
     values |-> <<>>, err |-> ErrNil, m |-> NilMap, res |-> <<>>,
     seen |-> <<>>, keys |-> <<>>, valueList |-> <<>>, faultAt |-> 0,
     fault |-> NoFault]

\* No call is in progress: the workload issues its calls one at a time.
Idle == last.op = "none"

Read(table, key, fields, fault) ==
    /\ LET r == ReadFn(buckets, table, key, fields, fault)
       IN  last' = [NoCall EXCEPT !.op = "Read", !.table = table,
                       !.key = key, !.fields = fields, !.err = r.err,
                       !.m = r.m]
    /\ pre' = buckets
    /\ UNCHANGED <<buckets, deleted>>
    /\ UNCHANGED concVars

Scan(table, startKey, count, fields, fault) ==
    /\ LET r == ScanFn(buckets, table, startKey, count, fields, fault)
       IN  last' = [NoCall EXCEPT !.op = "Scan", !.table = table,
                       !.key = startKey, !.fields = fields, !.count = count,
                       !.err = r.err, !.res = r.res, !.seen = r.seen]
    /\ pre' = buckets
    /\ UNCHANGED <<buckets, deleted>>
    /\ UNCHANGED concVars

Update(table, key, values, fault) ==
    /\ LET r == UpdateFn(buckets, table, key, values, fault)
       IN  /\ buckets' = RunUpdate(buckets, r)
           /\ last' = [NoCall EXCEPT !.op = "Update", !.table = table,
                          !.key = key, !.values = values, !.err = r.err]
    /\ pre' = buckets
    /\ UNCHANGED deleted
    /\ UNCHANGED concVars

Insert(table, key, values, fault) ==
    /\ LET r == InsertFn(buckets, table, key, values, fault)
       IN  /\ buckets' = RunUpdate(buckets, r)
           /\ last' = [NoCall EXCEPT !.op = "Insert", !.table = table,
                          !.key = key, !.values = values, !.fault = fault,
                          !.err = r.err]
           /\ deleted' = IF r.err = ErrNil THEN deleted \ {<<table, key>>}
                         ELSE deleted
    /\ pre' = buckets
    /\ UNCHANGED concVars

Delete(table, key, fault) ==
    /\ LET r == DeleteFn(buckets, table, key, fault)
       IN  /\ buckets' = RunUpdate(buckets, r)
           /\ last' = [NoCall EXCEPT !.op = "Delete", !.table = table,
                          !.key = key, !.fault = fault, !.err = r.err]
           /\ deleted' = IF r.err = ErrNil THEN deleted \cup {<<table, key>>}
                         ELSE deleted
    /\ pre' = buckets
    /\ UNCHANGED concVars

KeySet(keys) == {keys[n] : n \in DOMAIN keys}

BatchInsert(table, keys, valueList, faultAt, fault) ==
    /\ LET r == BatchInsertFn(buckets, table, keys, valueList, 1, faultAt,
                              fault)
       IN  /\ buckets' = RunUpdate(buckets, r)
           /\ last' = [NoCall EXCEPT !.op = "BatchInsert", !.table = table,
                          !.keys = keys, !.valueList = valueList,
                          !.faultAt = faultAt, !.fault = fault,
                          !.err = r.err]
           /\ deleted' = IF r.err = ErrNil
                         THEN deleted \ {<<table, k>> : k \in KeySet(keys)}
                         ELSE deleted
    /\ pre' = buckets
    /\ UNCHANGED concVars

\* BatchUpdate as it would be if every key were written in a transaction
\* of its own: the keys before the failing one stay written.
BatchUpdatePerKey(table, keys, valueList, faultAt, fault) ==
    /\ LET r == BatchUpdateFn(buckets, table, keys, valueList, 1, faultAt,
                              fault)
       IN  /\ buckets' = r.tx
           /\ last' = [NoCall EXCEPT !.op = "BatchUpdate", !.table = table,
                          !.keys = keys, !.valueList = valueList,
                          !.faultAt = faultAt, !.fault = fault,
                          !.err = r.err]
    /\ pre' = buckets
    /\ UNCHANGED deleted
    /\ UNCHANGED concVars

BatchUpdate(table, keys, valueList, faultAt, fault) ==
    /\ LET r == BatchUpdateFn(buckets, table, keys, valueList, 1, faultAt,
                              fault)
       IN  /\ buckets' = RunUpdate(buckets, r)
           /\ last' = [NoCall EXCEPT !.op = "BatchUpdate", !.table = table,
                          !.keys = keys, !.valueList = valueList,
                          !.faultAt = faultAt, !.fault = fault,
                          !.err = r.err]
    /\ pre' = buckets
    /\ UNCHANGED deleted
    /\ UNCHANGED concVars

BatchDelete(table, keys, faultAt, fault) ==
    /\ LET r == BatchDeleteFn(buckets, table, keys, 1, faultAt, fault)
       IN  /\ buckets' = RunUpdate(buckets, r)
           /\ last' = [NoCall EXCEPT !.op = "BatchDelete", !.table = table,
                          !.keys = keys, !.faultAt = faultAt,
                          !.fault = fault, !.err = r.err]
           /\ deleted' = IF r.err = ErrNil
                         THEN deleted \cup {<<table, k>> : k \in KeySet(keys)}
                         ELSE deleted
    /\ pre' = buckets
    /\ UNCHANGED concVars

BatchRead(table, keys, fields, faultAt, fault) ==
    /\ LET r == BatchReadFn(buckets, table, keys, fields, 1, <<>>, faultAt,
                            fault)
       IN  last' = [NoCall EXCEPT !.op = "BatchRead", !.table = table,
                       !.keys = keys, !.fields = fields,
                       !.faultAt = faultAt, !.fault = fault,
                       !.err = r.err, !.res = r.res]
    /\ pre' = buckets
    /\ UNCHANGED <<buckets, deleted>>
    /\ UNCHANGED concVars

\* The call has returned to the workload, which goes on to its next call.
Return ==
    /\ ~Idle
    /\ last' = NoCall
    /\ pre' = buckets
    /\ UNCHANGED <<buckets, deleted>>
    /\ UNCHANGED concVars

----------------------------------------------------------------------------
(* Concurrent clients.  The threads of the workload share one freDB value, *)
(* that is one engine handle and one buffer pool.  A call is cut at the    *)
(* points where another thread can be seen or can see it: the start of the *)
(* engine's transaction, the pool's Get, the callback's return (with its   *)
(* deferred pool Put), the commit or rollback, and the return of the call. *)
(* A Scan is cut at every turn of its loop.                                *)

\* The threads of the workload: thread 1 reads, scans and updates, thread 2
\* updates, inserts and deletes.
Clients == {1, 2}
Readers == {1}
Loaders == {2}

\* No thread holds the engine's read-write transaction.
NoWriter == 0

\* The buffers the pool hands out, and the absence of one.
Bufs == {"buf1", "buf2"}
NoBuf == "none"

\* Keys and field maps of the concurrent calls.
ConcKeys == {<<1>>, <<2>>}
ConcFieldLists == {<<>>, <<"field1">>}
UpdateKeys == {<<1>>}
ReadKeys == {<<1>>}
InsertMaps == {[field0 |-> "a"]}
UpdateMaps == {[field0 |-> "b"], [field1 |-> "b"]}

\* The failures an Update of thread c may meet: every return of the
\* callback is taken by thread 2.
UpdateFaults(c) ==
    IF c \in Loaders THEN {NoFault, DecodeFault, EncodeFault, PutFault}
    ELSE {NoFault, EncodeFault, PutFault}

\* The calls as they would be if Update ran its callback in a transaction
\* that does not exclude other writers.
WriteOpsUpdateShared == {"Insert", "Delete"}

\* The calls as they would be if Insert ran its callback in a transaction
\* that does not exclude other writers.
WriteOpsInsertShared == {"Update", "Delete"}

\* The calls that run their callback under db.db.Update, the engine's
\* read-write transaction, of which at most one is in flight.
WriteOps == {"Update", "Insert", "Delete"}

\* The record of a thread's call: arguments, results, the cursor (cur, i)
\* of a Scan, and what is remembered about its course: the committed
\* content when its transaction began (snap), the number of pool Get and
\* Put calls it made, whether the buffer it gave to Put is the one Get
\* gave it (back), the first writing call of another thread that
\* overlapped it (conc, concDone once that call has returned), whether it
\* had to wait for the read-write transaction (blocked), whether a write
\* was committed between two turns of its loop (mid) and whether another
\* thread has committed since it finished (stale).
NoClientCall ==
    [op |-> "none", table |-> "", key |-> <<>>, fields |-> <<>>,
     count |-> 0, values |-> <<>>, fault |-> NoFault, err |-> ErrNil, m |-> NilMap,
     res |-> <<>>, seen |-> <<>>, cur |-> <<>>, i |-> 0, snap |-> NoBuckets,
     gets |-> 0, puts |-> 0, back |-> FALSE, conc |-> 0, concDone |-> FALSE,
     blocked |-> FALSE, mid |-> FALSE, stale |-> FALSE]

\* The transaction db.db.View hands to Read's callback: the committed
\* content at the time the transaction began.
ReadTx(c) == view[c]

\* Scan as it would be if every cursor movement read the content committed
\* at that moment.
ScanTxLive(c) == buckets

\* The transaction db.db.View hands to Scan's callback.
ScanTx(c) == view[c]

\* The cursor's (key, value) pair at position pos (<<>> or <<key>>).
ScanEntry(tx, table, pos) ==
    IF pos = <<>> THEN <<>> ELSE <<pos[1], Get(tx, table, pos[1])>>

\* Whether Update's callback reaches db.bufPool.Get(): it has returned
\* before when the table or the key is missing or Decode has failed.
UpdateReachesGet(tx, table, key, fault) ==
    /\ HasBucket(tx, table)
    /\ HasKey(tx, table, key)
    /\ Decode(Get(tx, table, key), <<>>, fault).err = ErrNil

\* Whether Insert's callback reaches db.bufPool.Get(): it has returned
\* before when CreateBucketIfNotExists has failed.
InsertReachesGet(tx, table, fault) ==
    CreateBucketIfNotExists(tx, table, fault).err = ErrNil

\* What db.r.Encode returns in Update's callback, given the merged record.
UpdateEncoded(tx, table, key, values, fault) ==
    Encode(<<>>,
           Overlay(Decode(Get(tx, table, key), <<>>, fault).m[1], values),
           fault)

\* What db.r.Encode returns in Insert's callback.
InsertEncoded(values, fault) == Encode(<<>>, values, fault)

\* The buffer behind the slice Encode returns: the buffer it was given,
\* with the row appended, when it succeeds; none when it returns an error,
\* which comes without bytes.
EncodedBuf(buf, e) == IF e.err = ErrNil THEN buf ELSE NoBuf

\* The callback of thread c's writing call, run on its transaction.
WriteFn(c) ==
    LET a == call[c]
    IN  CASE a.op = "Update" ->
               UpdateFn(view[c], a.table, a.key, a.values, a.fault)
          [] a.op = "Insert" ->
               InsertFn(view[c], a.table, a.key, a.values, a.fault)
          [] a.op = "Delete" -> DeleteFn(view[c], a.table, a.key, a.fault)

\* Whether the callback of thread c's call reaches db.bufPool.Get().
ReachesGet(c) ==
    LET a == call[c]
    IN  CASE a.op = "Update" ->
               UpdateReachesGet(view[c], a.table, a.key, a.fault)
          [] a.op = "Insert" -> InsertReachesGet(view[c], a.table, a.fault)
          [] a.op = "Delete" -> FALSE

\* What Encode returns in the callback of thread c's Update or Insert.
Encoded(c) ==
    LET a == call[c]
    IN  CASE a.op = "Update" ->
               UpdateEncoded(view[c], a.table, a.key, a.values, a.fault)
          [] a.op = "Insert" -> InsertEncoded(a.values, a.fault)

\* The buffers no thread holds: the pool's Get returns one of them, one it
\* was given back or a fresh one (a buffer that was dropped without being
\* given back is collected, and its name stands for a fresh one).
PoolFree == Bufs \ {borrowed[c] : c \in Clients}

\* The first writing call of another thread in progress when c's starts,
\* if nothing has been committed since its transaction ended.
Overlapping(c) ==
    LET W == {d \in Clients \ {c} :
                /\ pc[d] # "idle" /\ call[d].op \notin {"Read", "Scan"}
                /\ ~call[d].stale}
    IN  IF W = {} THEN 0 ELSE CHOOSE d \in W : TRUE

\* Read is called: db.db.View begins a read-only transaction.
CallRead(c, table, key, fields, fault) ==
    /\ pc[c] = "idle"
    /\ pc' = [pc EXCEPT ![c] = "tx"]
    /\ call' = [call EXCEPT ![c] =
                  [NoClientCall EXCEPT !.op = "Read", !.table = table,
                      !.key = key, !.fields = fields, !.fault = fault,
                      !.snap = buckets,
                      !.conc = Overlapping(c)]]
    /\ view' = [view EXCEPT ![c] = buckets]
    /\ UNCHANGED <<buckets, writer, borrowed, pending, pre, last, deleted>>

\* Read's callback runs and the call's results are set.
ReadBody(c) ==
    /\ pc[c] = "tx" /\ call[c].op = "Read"
    /\ LET r == ReadFn(ReadTx(c), call[c].table, call[c].key,
                       call[c].fields, call[c].fault)
       IN  call' = [call EXCEPT ![c].err = r.err, ![c].m = r.m]
    /\ pc' = [pc EXCEPT ![c] = "done"]
    /\ UNCHANGED <<buckets, view, writer, borrowed, pending, pre, last,
                   deleted>>

\* Scan is called: res is made and db.db.View begins a transaction.
CallScan(c, table, startKey, count, fields, fault) ==
    /\ pc[c] = "idle"
    /\ pc' = [pc EXCEPT ![c] = "tx"]
    /\ call' = [call EXCEPT ![c] =
                  [NoClientCall EXCEPT !.op = "Scan", !.table = table,
                      !.key = startKey, !.count = count,
                      !.fields = fields, !.fault = fault,
                      !.res = [n \in 1..count |-> NilMap],
                      !.snap = buckets, !.conc = Overlapping(c)]]
    /\ view' = [view EXCEPT ![c] = buckets]
    /\ UNCHANGED <<buckets, writer, borrowed, pending, pre, last, deleted>>

\* Scan's callback up to the loop: the bucket and the cursor's Seek.
ScanSeek(c) ==
    /\ pc[c] = "tx" /\ call[c].op = "Scan"
    /\ LET tx == ScanTx(c)
           a == call[c]
       IN  IF ~HasBucket(tx, a.table)
           THEN /\ call' = [call EXCEPT ![c].err = TableNotFound]
                /\ pc' = [pc EXCEPT ![c] = "done"]
           ELSE /\ call' = [call EXCEPT ![c].cur =
                              ScanEntry(tx, a.table,
                                        Seek(tx, a.table, a.key))]
                /\ pc' = [pc EXCEPT ![c] = "loop"]
    /\ UNCHANGED <<buckets, view, writer, borrowed, pending, pre, last,
                   deleted>>

\* One turn of Scan's loop: the test, and if it passes Decode (its error
\* returned), res[i] = m and cursor.Next().
ScanStep(c) ==
    /\ pc[c] = "loop"
    /\ LET tx == ScanTx(c)
           a == call[c]
       IN  IF a.cur = <<>> \/ a.i >= a.count
           THEN /\ pc' = [pc EXCEPT ![c] = "done"]
                /\ UNCHANGED call
           ELSE LET d == Decode(a.cur[2], a.fields, a.fault)
                IN  IF d.err # ErrNil
                    THEN /\ call' = [call EXCEPT ![c].err = d.err]
                         /\ pc' = [pc EXCEPT ![c] = "done"]
                    ELSE /\ call' =
                              [call EXCEPT
                                 ![c].res = [a.res EXCEPT ![a.i + 1] = d.m],
                                 ![c].seen = Append(a.seen, a.cur[1]),
                                 ![c].i = a.i + 1,
                                 ![c].cur =
                                    ScanEntry(tx, a.table,
                                              CursorNext(tx, a.table,
                                                         a.cur[1]))]
                         /\ UNCHANGED pc
    /\ UNCHANGED <<buckets, view, writer, borrowed, pending, pre, last,
                   deleted>>

\* A writing call is called by thread c; a is its record.
CallWrite(c, a) ==
    /\ pc[c] = "idle"
    /\ pc' = [pc EXCEPT ![c] = "called"]
    /\ call' = [d \in Clients |->
                  IF d = c THEN [a EXCEPT !.blocked = (writer # NoWriter),
                                          !.conc = Overlapping(c)]
                  ELSE IF /\ pc[d] # "idle"
                          /\ call[d].op \in {"Read", "Scan"}
                          /\ call[d].conc = 0 /\ ~call[d].concDone
                       THEN [call[d] EXCEPT !.conc = c]
                       ELSE call[d]]
    /\ UNCHANGED <<buckets, view, writer, borrowed, pending, pre, last,
                   deleted>>

CallUpdate(c, table, key, values, fault) ==
    CallWrite(c, [NoClientCall EXCEPT !.op = "Update", !.table = table,
                     !.key = key, !.values = values, !.fault = fault])

CallInsert(c, table, key, values, fault) ==
    CallWrite(c, [NoClientCall EXCEPT !.op = "Insert", !.table = table,
                     !.key = key, !.values = values, !.fault = fault])

CallDelete(c, table, key, fault) ==
    CallWrite(c, [NoClientCall EXCEPT !.op = "Delete", !.table = table,
                     !.key = key, !.fault = fault])

\* db.db.Update begins the transaction of thread c's call: a read-write
\* transaction waits until no other is in flight.
Begin(c) ==
    /\ pc[c] = "called"
    /\ IF call[c].op \in WriteOps
       THEN writer = NoWriter /\ writer' = c
       ELSE UNCHANGED writer
    /\ view' = [view EXCEPT ![c] = buckets]
    /\ call' = [call EXCEPT ![c].snap = buckets]
    /\ pc' = [pc EXCEPT ![c] = "tx"]
    /\ UNCHANGED <<buckets, borrowed, pending, pre, last, deleted>>

\* The callback of a writing call up to bufPool.Get, or up to its return
\* when it returns before (Update's and Insert's early returns, Delete).
\* At the Get the local variable buf (borrowed) takes the buffer.
TxBody(c) ==
    /\ pc[c] = "tx" /\ call[c].op \in {"Update", "Insert", "Delete"}
    /\ IF ~ReachesGet(c)
       THEN LET r == WriteFn(c)
            IN  /\ view' = [view EXCEPT ![c] = r.tx]
                /\ call' = [call EXCEPT ![c].err = r.err]
                /\ pc' = [pc EXCEPT ![c] = "exit"]
                /\ UNCHANGED borrowed
       ELSE /\ \E b \in PoolFree :
                 /\ borrowed' = [borrowed EXCEPT ![c] = b]
                 /\ call' = [call EXCEPT ![c].gets = @ + 1]
            /\ pc' = [pc EXCEPT ![c] = "buf"]
            /\ UNCHANGED view
    /\ UNCHANGED <<buckets, writer, pending, pre, last, deleted>>

\* The callback from Encode to its return.  buf is assigned what Encode
\* returns; the callback returns Encode's error, or else what bucket.Put
\* returns, having handed buf to the engine; on either return the deferred
\* closure gives the value buf then has to bufPool.Put, and buf is gone.
TxEncodePut(c) ==
    /\ pc[c] = "buf"
    /\ LET e == Encoded(c)
           buf == EncodedBuf(borrowed[c], e)
           r == WriteFn(c)
       IN  /\ view' = [view EXCEPT ![c] = r.tx]
           /\ call' = [call EXCEPT ![c].err = r.err,
                                   ![c].puts = @ + 1,
                                   ![c].back = (buf = borrowed[c])]
           /\ pending' = [pending EXCEPT ![c] =
                            IF e.err = ErrNil /\ r.err = ErrNil
                            THEN buf ELSE NoBuf]
    /\ borrowed' = [borrowed EXCEPT ![c] = NoBuf]
    /\ pc' = [pc EXCEPT ![c] = "exit"]
    /\ UNCHANGED <<buckets, writer, pre, last, deleted>>

\* db.db.Update ends the transaction: commit if the callback returned nil,
\* rollback otherwise.
End(c) ==
    /\ pc[c] = "exit"
    /\ buckets' = RunUpdate(buckets, [err |-> call[c].err, tx |-> view[c]])
    /\ writer' = IF writer = c THEN NoWriter ELSE writer
    /\ pending' = [pending EXCEPT ![c] = NoBuf]
    /\ pc' = [pc EXCEPT ![c] = "done"]
    /\ call' = [d \in Clients |->
                  IF d = c \/ call[c].err # ErrNil THEN call[d]
                  ELSE IF /\ pc[d] = "loop" /\ buckets' # buckets
                          /\ call[d].i >= 1 /\ call[d].i < call[d].count
                          /\ call[d].cur # <<>>
                  THEN [call[d] EXCEPT !.mid = TRUE]
                  ELSE IF pc[d] = "done"
                  THEN [call[d] EXCEPT !.stale = TRUE]
                  ELSE call[d]]
    /\ UNCHANGED <<view, borrowed, pre, last, deleted>>

\* The call returns to the workload.
ClientReturn(c) ==
    /\ pc[c] = "done"
    /\ pc' = [pc EXCEPT ![c] = "idle"]
    /\ call' = [d \in Clients |->
                  IF d = c THEN NoClientCall
                  ELSE IF call[d].conc = c
                       THEN [call[d] EXCEPT !.conc = 0, !.concDone = TRUE]
                       ELSE call[d]]
    /\ view' = [view EXCEPT ![c] = NoBuckets]
    /\ UNCHANGED <<buckets, writer, borrowed, pending, pre, last, deleted>>

Init ==
    /\ buckets = NoBuckets
    /\ pre = NoBuckets
    /\ last = NoCall
    /\ deleted = {}
    /\ pc = [c \in Clients |-> "idle"]
    /\ call = [c \in Clients |-> NoClientCall]
    /\ view = [c \in Clients |-> NoBuckets]
    /\ writer = NoWriter
    /\ borrowed = [c \in Clients |-> NoBuf]
    /\ pending = [c \in Clients |-> NoBuf]

Next ==
    \/ Idle /\ \E t \in Tables, k \in Keys, fl \in FieldLists,
          f \in {NoFault, DecodeFault} : Read(t, k, fl, f)
    \/ Idle /\ \E t \in Tables, k \in Keys, c \in 0..MaxCount, fl \in FieldLists,
          f \in {NoFault, DecodeFault} : Scan(t, k, c, fl, f)
    \/ Idle /\ \E t \in Tables, k \in Keys, m \in NonEmptyMaps,
          f \in {NoFault, DecodeFault, EncodeFault, PutFault} :
            Update(t, k, m, f)
    \/ Idle /\ \E t \in Tables, k \in Keys, m \in NonEmptyMaps,
          f \in {NoFault, CreateFault, EncodeFault, PutFault} :
            Insert(t, k, m, f)
    \/ Idle /\ \E t \in Tables, k \in Keys, f \in {NoFault, DeleteFault} :
          Delete(t, k, f)
    \/ Return

Spec == Init /\ [][Next]_vars

\* The value lists that go with a key list: one map per key.
ValueLists(keys) == [DOMAIN keys -> BatchMaps]

\* The batch calls alone.
NextBatch ==
    \/ Idle /\ \E t \in Tables, ks \in KeyLists :
         \E vl \in ValueLists(ks), at \in 0..Len(ks) :
            BatchInsert(t, ks, vl, at, IF at = 0 THEN NoFault ELSE EncodeFault)
    \/ Idle /\ \E t \in Tables, ks \in KeyLists :
         \E vl \in ValueLists(ks), at \in 0..Len(ks) :
            BatchUpdate(t, ks, vl, at, IF at = 0 THEN NoFault ELSE EncodeFault)
    \/ Idle /\ \E t \in Tables, ks \in DeleteKeyLists :
         \E at \in 0..Len(ks) :
            BatchDelete(t, ks, at, IF at = 0 THEN NoFault ELSE DeleteFault)
    \/ Idle /\ \E t \in Tables, ks \in KeyLists, fl \in FieldLists :
         \E at \in 0..Len(ks) :
            BatchRead(t, ks, fl, at, IF at = 0 THEN NoFault ELSE DecodeFault)
    \/ Return

SpecBatch == Init /\ [][NextBatch]_vars

\* Two threads calling the store concurrently.
NextConc ==
    \/ \E c \in Readers, t \in Tables, k \in ReadKeys,
          f \in {NoFault, DecodeFault} :
            CallRead(c, t, k, <<>>, f)
    \/ \E c \in Clients : ReadBody(c)
    \/ \E c \in Readers, t \in Tables, k \in ReadKeys,
          fl \in ConcFieldLists, f \in {NoFault, DecodeFault} :
            CallScan(c, t, k, MaxCount, fl, f)
    \/ \E c \in Clients : ScanSeek(c)
    \/ \E c \in Clients : ScanStep(c)
    \/ \E c \in Clients :
          \E t \in Tables, k \in UpdateKeys, m \in UpdateMaps,
             f \in UpdateFaults(c) :
               CallUpdate(c, t, k, m, f)
    \/ \E c \in Loaders, t \in Tables, k \in ConcKeys, m \in InsertMaps,
          f \in {NoFault, CreateFault, EncodeFault, PutFault} :
            CallInsert(c, t, k, m, f)
    \/ \E c \in Loaders, t \in Tables, k \in ConcKeys,
          f \in {NoFault, DeleteFault} : CallDelete(c, t, k, f)
    \/ \E c \in Clients : Begin(c)
    \/ \E c \in Clients : TxBody(c)
    \/ \E c \in Clients : TxEncodePut(c)
    \/ \E c \in Clients : End(c)
    \/ \E c \in Clients : ClientReturn(c)

SpecConc == Init /\ [][NextConc]_vars

----------------------------------------------------------------------------
(* Properties.                                                             *)

\* The record stored under (table, key) in the committed content b, as a
\* Read with no field filter returns it.
Stored(b, table, key) == ReadFn(b, table, key, <<>>, NoFault)

Present(b, table, key) == HasBucket(b, table) /\ HasKey(b, table, key)

NamesOf(fields) == {fields[n] : n \in DOMAIN fields}

\* C1: after an Insert(table, key, m) that returned no error, and before any
\* other write, Read(table, key, no filter) returns no error and exactly m.
C1_InsertThenRead ==
    (last.op = "Insert" /\ last.err = ErrNil) =>
        /\ Stored(buckets, last.table, last.key).err = ErrNil
        /\ Stored(buckets, last.table, last.key).m = Some(last.values)

C1_Witness ==
    /\ last.op = "Insert" /\ last.err = ErrNil
    /\ Present(pre, last.table, last.key)
    /\ Stored(pre, last.table, last.key).m # Some(last.values)
    /\ Cardinality(DOMAIN last.values) = 2

\* C2: after an Update(table, key, changes) that returned no error on a
\* record holding old, the stored record has the names of old and changes,
\* the value of changes for every name in changes, and the value of old for
\* every other name.
C2_UpdateMerges ==
    (last.op = "Update" /\ last.err = ErrNil) =>
        /\ Present(pre, last.table, last.key)
        /\ Stored(buckets, last.table, last.key).err = ErrNil
        /\ LET old == Stored(pre, last.table, last.key).m[1]
               new == Stored(buckets, last.table, last.key).m[1]
               changes == last.values
           IN  /\ DOMAIN new = DOMAIN old \cup DOMAIN changes
               /\ \A f \in DOMAIN changes : new[f] = changes[f]
               /\ \A f \in DOMAIN old \ DOMAIN changes : new[f] = old[f]

C2_Witness ==
    /\ last.op = "Update" /\ last.err = ErrNil
    /\ LET old == Stored(pre, last.table, last.key).m[1]
       IN  /\ DOMAIN old = Fields
           /\ DOMAIN last.values # Fields
           /\ \E f \in DOMAIN last.values : old[f] # last.values[f]

\* C3: Read, Scan and Update on a table that does not exist fail with
\* TableNotFound; Read and Update on an existing table without the key fail
\* with KeyNotFound.
C3_NotFoundErrors ==
    /\ (last.op \in {"Read", "Scan", "Update"} /\ ~HasBucket(pre, last.table))
          => last.err = TableNotFound
    /\ (last.op \in {"Read", "Update"} /\ HasBucket(pre, last.table)
           /\ ~HasKey(pre, last.table, last.key))
          => last.err = KeyNotFound

C3_Witness ==
    /\ last.op = "Update" /\ last.err = KeyNotFound
    /\ HasBucket(pre, last.table)
    /\ DOMAIN pre[last.table] # {}

\* C4: a Delete on a table that does not exist, or on a key the table does
\* not hold, leaves the committed content unchanged; it returns no error
\* when the table does not exist, and when the key is not held it returns
\* what the engine's Delete returns: no error unless the engine fails.
C4_DeleteMissingIsNoOp ==
    (last.op = "Delete" /\ ~Present(pre, last.table, last.key)) =>
        /\ buckets = pre
        /\ ~HasBucket(pre, last.table) => last.err = ErrNil
        /\ last.fault = NoFault => last.err = ErrNil
        /\ last.err \in {ErrNil, EngineError}

C4_Witness ==
    /\ last.op = "Delete" /\ last.err = ErrNil
    /\ HasBucket(pre, last.table)
    /\ ~HasKey(pre, last.table, last.key)
    /\ DOMAIN pre[last.table] # {}

\* C5: from a Delete(table, key) that returned no error until the next
\* Insert of (table, key), every Read of the key fails and no Scan of the
\* table returns the key's record.
C5_DeletedStaysAbsent ==
    /\ \A d \in deleted :
         /\ \A fl \in FieldLists :
              ReadFn(buckets, d[1], d[2], fl, NoFault).err # ErrNil
         /\ \A s \in Keys, c \in 0..MaxCount :
              LET r == ScanFn(buckets, d[1], s, c, <<>>, NoFault)
              IN  \A n \in DOMAIN r.seen : r.seen[n] # d[2]
    /\ (last.op = "Read" /\ <<last.table, last.key>> \in deleted)
          => (last.err # ErrNil /\ last.m = NilMap)
    /\ last.op = "Scan" =>
          \A n \in DOMAIN last.seen : <<last.table, last.seen[n]>> \notin deleted

C5_Witness ==
    /\ last.op = "Scan" /\ last.err = ErrNil
    /\ Len(last.seen) = 2
    /\ \E d \in deleted :
         /\ d[1] = last.table
         /\ KeyLess(last.seen[1], d[2])
         /\ KeyLess(d[2], last.seen[2])

\* C6: a Scan that returns no error returns records in strictly ascending
\* key order, at most count of them, none with a key less than the start
\* key, and (when count is at least 1) the start key's record first when the
\* table holds the start key.
C6_ScanOrdered ==
    (last.op = "Scan" /\ last.err = ErrNil) =>
        /\ Len(last.res) = last.count
        /\ Len(last.seen) <= last.count
        /\ \A n \in DOMAIN last.res :
             IF n <= Len(last.seen)
             THEN last.res[n] =
                    ReadFn(pre, last.table, last.seen[n], last.fields, NoFault).m
             ELSE last.res[n] = NilMap
        /\ \A n \in 1..(Len(last.seen) - 1) :
             KeyLess(last.seen[n], last.seen[n + 1])
        /\ \A n \in DOMAIN last.seen : ~KeyLess(last.seen[n], last.key)
        /\ (last.count >= 1 /\ HasKey(pre, last.table, last.key))
              => (Len(last.seen) >= 1 /\ last.seen[1] = last.key)

C6_Witness ==
    /\ last.op = "Scan" /\ last.err = ErrNil
    /\ last.count = 2
    /\ DOMAIN pre[last.table] = Keys
    /\ last.key = <<1, 0>>
    /\ last.seen = <<<<1, 0>>, <<2>>>>

\* C7: a Read with a non-empty field filter that returns no error returns
\* exactly the requested names the record has, each with its stored value.
C7_ReadProjects ==
    (last.op = "Read" /\ last.err = ErrNil /\ Len(last.fields) > 0) =>
        /\ last.m # NilMap
        /\ LET full == Stored(pre, last.table, last.key).m[1]
               got == last.m[1]
           IN  /\ DOMAIN got = NamesOf(last.fields) \cap DOMAIN full
               /\ \A f \in DOMAIN got : got[f] = full[f]

C7_Witness ==
    /\ last.op = "Read" /\ last.err = ErrNil
    /\ Len(last.fields) = 2
    /\ DOMAIN last.m[1] = {"field1"}

\* C8: a call that returns an error leaves the committed content as it was;
\* a write that returns no error is committed: the inserted record is
\* stored, the updated record is stored, the deleted key is gone.
C8_ErrorRollsBack ==
    /\ last.err # ErrNil => buckets = pre
    /\ (last.op = "Insert" /\ last.err = ErrNil) =>
          /\ Present(buckets, last.table, last.key)
          /\ Get(buckets, last.table, last.key)
                = Encode(<<>>, last.values, NoFault).row
    /\ (last.op = "Update" /\ last.err = ErrNil) =>
          /\ Present(buckets, last.table, last.key)
          /\ \A f \in DOMAIN last.values :
               Stored(buckets, last.table, last.key).m[1][f] = last.values[f]
    /\ (last.op = "Delete" /\ last.err = ErrNil) =>
          ~Present(buckets, last.table, last.key)

C8_Witness ==
    /\ last.op = "Insert" /\ last.err = CodecError
    /\ ~HasBucket(pre, last.table)
    /\ ~HasBucket(buckets, last.table)

\* The least index of a non-empty set of indices.
MinIndex(S) == CHOOSE i \in S : \A j \in S : i <= j

\* The last index at which key k occurs in the key list.
LastIndexOf(keys, k) ==
    CHOOSE i \in DOMAIN keys : keys[i] = k /\ \A j \in DOMAIN keys :
                                                keys[j] = k => j <= i

BatchWrites == {"BatchInsert", "BatchUpdate", "BatchDelete"}

\* The error of the first step of the batch that fails, "nil" if none does:
\* a BatchInsert step fails when it meets the fault, a BatchUpdate fails on a
\* missing table, and a BatchUpdate step fails on a missing key or when it
\* meets the fault; a BatchDelete step fails only when the engine's Delete
\* does, which it is asked to on an existing table only.
FirstError(b, c) ==
    IF c.op = "BatchInsert"
    THEN IF c.faultAt # 0 THEN CodecError ELSE ErrNil
    ELSE IF c.op = "BatchUpdate"
    THEN IF ~HasBucket(b, c.table) THEN TableNotFound
         ELSE LET bad == {i \in DOMAIN c.keys :
                            ~HasKey(b, c.table, c.keys[i]) \/ i = c.faultAt}
              IN  IF bad = {} THEN ErrNil
                  ELSE IF ~HasKey(b, c.table, c.keys[MinIndex(bad)])
                       THEN KeyNotFound ELSE CodecError
    ELSE IF c.faultAt # 0 /\ HasBucket(b, c.table) THEN EngineError
    ELSE ErrNil

\* C9: a write batch returns the error of its first failing step, and then
\* the committed content is what it was before the batch; a write batch
\* without a failing step is committed whole.
C9_BatchAtomic ==
    last.op \in BatchWrites =>
        /\ last.err = FirstError(pre, last)
        /\ last.err # ErrNil => buckets = pre
        /\ (last.err = ErrNil /\ last.op = "BatchInsert") =>
              \A k \in KeySet(last.keys) :
                 Stored(buckets, last.table, k).m
                    = Some(last.valueList[LastIndexOf(last.keys, k)])
        /\ (last.err = ErrNil /\ last.op = "BatchUpdate") =>
              \A k \in KeySet(last.keys) :
                 LET v == last.valueList[LastIndexOf(last.keys, k)]
                 IN  \A f \in DOMAIN v :
                        Stored(buckets, last.table, k).m[1][f] = v[f]
        /\ (last.err = ErrNil /\ last.op = "BatchDelete") =>
              \A k \in KeySet(last.keys) : ~Present(buckets, last.table, k)

C9_Witness ==
    /\ last.op = "BatchUpdate" /\ last.err = KeyNotFound
    /\ Len(last.keys) = 2
    /\ Present(pre, last.table, last.keys[1])
    /\ UpdateFn(pre, last.table, last.keys[1], last.valueList[1], NoFault).tx
          # pre
    /\ buckets = pre

\* C10: a BatchRead of keys that all exist returns no error and one map per
\* key, the i-th being what Read returns for the i-th key and the same
\* field filter.
C10_BatchReadOrdered ==
    (/\ last.op = "BatchRead"
     /\ last.faultAt = 0
     /\ \A k \in KeySet(last.keys) : Present(pre, last.table, k)) =>
        /\ last.err = ErrNil
        /\ Len(last.res) = Len(last.keys)
        /\ \A i \in DOMAIN last.keys :
             last.res[i]
                = ReadFn(pre, last.table, last.keys[i], last.fields, NoFault).m

C10_Witness ==
    /\ last.op = "BatchRead" /\ last.err = ErrNil
    /\ Len(last.keys) = 2
    /\ last.keys[1] = <<2>> /\ last.keys[2] = <<1>>
    /\ Len(last.fields) = 1
    /\ last.res[1] # last.res[2]

\* C11: a BatchDelete whose steps meet no engine failure returns no error
\* whether or not the table and the keys exist; afterwards no listed key is
\* stored, every other key holds the row it held, and no table has appeared
\* or disappeared.
C11_BatchDeleteMissingOk ==
    (last.op = "BatchDelete" /\ last.faultAt = 0) =>
        /\ last.err = ErrNil
        /\ DOMAIN buckets = DOMAIN pre
        /\ \A t \in DOMAIN pre :
             IF t = last.table
             THEN /\ DOMAIN buckets[t] = DOMAIN pre[t] \ KeySet(last.keys)
                  /\ \A k \in DOMAIN buckets[t] : buckets[t][k] = pre[t][k]
             ELSE buckets[t] = pre[t]

C11_Witness ==
    /\ last.op = "BatchDelete" /\ last.err = ErrNil
    /\ Len(last.keys) = 2
    /\ HasBucket(pre, last.table)
    /\ ~HasKey(pre, last.table, last.keys[1])
    /\ HasKey(pre, last.table, last.keys[2])
    /\ DOMAIN buckets[last.table] # {}

\* C14: an Insert(table, key, new) that returned no error on a key holding
\* old leaves exactly new stored: the stored names are those of new, no name
\* of old outside new survives, and the values are those of new.
C14_InsertReplaces ==
    (last.op = "Insert" /\ last.err = ErrNil
        /\ Present(pre, last.table, last.key)) =>
        LET old == Stored(pre, last.table, last.key).m[1]
            now == Stored(buckets, last.table, last.key)
        IN  /\ now.err = ErrNil
            /\ DOMAIN now.m[1] = DOMAIN last.values
            /\ \A f \in DOMAIN old \ DOMAIN last.values :
                 f \notin DOMAIN now.m[1]
            /\ \A f \in DOMAIN last.values : now.m[1][f] = last.values[f]

C14_Witness ==
    /\ last.op = "Insert" /\ last.err = ErrNil
    /\ Present(pre, last.table, last.key)
    /\ DOMAIN Stored(pre, last.table, last.key).m[1] = {"field0", "field1"}
    /\ DOMAIN last.values = {"field1"}
    /\ Stored(buckets, last.table, last.key).m = Some(last.values)

\* C15: an Insert never returns TableNotFound, and returns no error when
\* neither the engine nor the codec fails, whether or not the table exists;
\* one that returned no error on a table that did not exist has created the
\* table and stored the row; an Update on a table that does not exist
\* returns TableNotFound and the table still does not exist.
C15_InsertCreatesUpdateDoesNot ==
    /\ last.op = "Insert" => last.err # TableNotFound
    /\ (last.op = "Insert" /\ last.fault = NoFault) => last.err = ErrNil
    /\ (last.op = "Insert" /\ last.err = ErrNil
            /\ ~HasBucket(pre, last.table)) =>
         /\ HasBucket(buckets, last.table)
         /\ DOMAIN buckets[last.table] = {last.key}
         /\ Stored(buckets, last.table, last.key).m = Some(last.values)
    /\ (last.op = "Update" /\ ~HasBucket(pre, last.table)) =>
         /\ last.err = TableNotFound
         /\ ~HasBucket(buckets, last.table)

C15_Witness ==
    /\ last.op = "Insert" /\ last.err = ErrNil
    /\ ~HasBucket(pre, last.table)
    /\ HasBucket(buckets, last.table)
    /\ Present(buckets, last.table, last.key)

\* An Update that met a table that does not exist.
C15_WitnessUpdate ==
    /\ last.op = "Update" /\ ~HasBucket(pre, last.table)
    /\ last.err = TableNotFound

\* C16: every table of the state before a call is a table of the state
\* after it; and when a Delete that returned no error has removed the last
\* key of a table, a Read of any key of it fails with KeyNotFound and a Scan
\* of it from any key returns no error.
C16_TableNeverDestroyed ==
    /\ DOMAIN pre \subseteq DOMAIN buckets
    /\ (last.op = "Delete" /\ last.err = ErrNil
            /\ HasBucket(pre, last.table)
            /\ DOMAIN pre[last.table] = {last.key}) =>
         /\ HasBucket(buckets, last.table)
         /\ DOMAIN buckets[last.table] = {}
         /\ \A k \in Keys :
              /\ ReadFn(buckets, last.table, k, <<>>, NoFault).err
                   = KeyNotFound
              /\ \A c \in 0..MaxCount :
                   ScanFn(buckets, last.table, k, c, <<>>, NoFault).err
                     = ErrNil

C16_Witness ==
    /\ last.op = "Delete" /\ last.err = ErrNil
    /\ HasBucket(pre, last.table)
    /\ DOMAIN pre[last.table] = {last.key}
    /\ DOMAIN buckets[last.table] = {}

\* The keys of table at or after start in state b.
KeysFrom(b, table, start) == {k \in DOMAIN b[table] : ~KeyLess(k, start)}

Min(a, b) == IF a <= b THEN a ELSE b

\* C17: a Scan that returned no error returns count entries; with S the
\* keys at or after the start key and n the lesser of count and the size of
\* S, entry i of the first n holds the record of the key of S that has
\* exactly i - 1 keys of S before it, and the entries after the n-th are nil.
C17_ScanFixedLength ==
    (last.op = "Scan" /\ last.err = ErrNil) =>
        LET S == KeysFrom(pre, last.table, last.key)
            n == Min(last.count, Cardinality(S))
        IN  /\ Len(last.res) = last.count
            /\ Len(last.seen) = n
            /\ \A i \in 1..n :
                 /\ last.seen[i] \in S
                 /\ Cardinality({k \in S : KeyLess(k, last.seen[i])}) = i - 1
                 /\ last.res[i] =
                      Decode(Get(pre, last.table, last.seen[i]), last.fields,
                             NoFault).m
                 /\ last.res[i] # NilMap
            /\ \A j \in (n + 1)..last.count : last.res[j] = NilMap

C17_Witness ==
    /\ last.op = "Scan" /\ last.err = ErrNil
    /\ last.count = 2
    /\ Cardinality(KeysFrom(pre, last.table, last.key)) = 1
    /\ Cardinality(DOMAIN pre[last.table]) = 3
    /\ Len(last.res) = 2 /\ last.res[1] # NilMap /\ last.res[2] = NilMap

----------------------------------------------------------------------------
(* Properties of concurrent calls.                                         *)

\* What thread r's finished Read or Scan has seen of key: the error and
\* the record, as a Read of the key reports them.
Observed(r, key) ==
    LET a == call[r]
    IN  IF a.op = "Read" \/ a.err # ErrNil THEN [err |-> a.err, m |-> a.m]
        ELSE IF \E i \in DOMAIN a.seen : a.seen[i] = key
        THEN [err |-> ErrNil,
              m |-> a.res[CHOOSE i \in DOMAIN a.seen : a.seen[i] = key]]
        ELSE [err |-> KeyNotFound, m |-> NilMap]

\* Thread r's Read or Scan covers key: a Read of that key, or a Scan that
\* starts at or before it and asks for as many records as there are keys.
Covers(r, key) ==
    IF call[r].op = "Read" THEN call[r].key = key
    ELSE ~KeyLess(key, call[r].key) /\ call[r].count >= Cardinality(ConcKeys)

\* m has the names of old and changes, the value of changes where it has
\* one and the value of old elsewhere.
IsMerged(m, old, changes) ==
    /\ DOMAIN m = DOMAIN old \cup DOMAIN changes
    /\ \A f \in DOMAIN m :
         m[f] = IF f \in DOMAIN changes THEN changes[f] ELSE old[f]

\* Thread r has finished a Read or Scan (no field filter, no Decode
\* failure) that covers the key of the Update of thread w, the first
\* writing call to overlap it.
ReadBesideUpdate(r, w) ==
    /\ pc[r] = "done" /\ call[r].op \in {"Read", "Scan"}
    /\ call[r].fields = <<>> /\ call[r].fault = NoFault
    /\ call[r].conc = w
    /\ call[w].op = "Update" /\ pc[w] \in {"tx", "buf", "exit", "done"}
    /\ call[r].table = call[w].table
    /\ Covers(r, call[w].key)

\* C12: while an Update's transaction is in flight the committed content
\* is what it was when the transaction began; and a Read or Scan that ran
\* beside an Update has seen, for the Update's key, either what was stored
\* when the Update began or, once the Update has committed, the fully
\* merged record: never a missing key, a partly merged record or the
\* change set alone.
C12_UpdateAtomicToReaders ==
    /\ \A w \in Clients :
         (call[w].op = "Update" /\ pc[w] \in {"tx", "buf", "exit"}) =>
             buckets = call[w].snap
    /\ \A r, w \in Clients :
         ReadBesideUpdate(r, w) =>
             LET old == Stored(call[w].snap, call[w].table, call[w].key)
                 obs == Observed(r, call[w].key)
             IN  \/ obs = old
                 \/ /\ pc[w] = "done" /\ call[w].err = ErrNil
                    /\ old.err = ErrNil /\ obs.err = ErrNil
                    /\ obs.m # NilMap
                    /\ IsMerged(obs.m[1], old.m[1], call[w].values)

\* A Read that began before the Update committed and finished after it:
\* it has seen the record as it was before.
C12_Witness ==
    \E r, w \in Clients :
        /\ ReadBesideUpdate(r, w)
        /\ call[r].op = "Read" /\ call[r].err = ErrNil
        /\ pc[w] = "done" /\ call[w].err = ErrNil
        /\ Observed(r, call[w].key)
             = Stored(call[w].snap, call[w].table, call[w].key)
        /\ Stored(buckets, call[w].table, call[w].key)
             # Stored(call[w].snap, call[w].table, call[w].key)

\* A Scan that began after the Update committed and before it returned: it
\* has seen the merged record.
C12_WitnessMerged ==
    \E r, w \in Clients :
        /\ ReadBesideUpdate(r, w)
        /\ call[r].op = "Scan" /\ call[r].err = ErrNil
        /\ pc[w] = "done" /\ call[w].err = ErrNil
        /\ Observed(r, call[w].key)
             # Stored(call[w].snap, call[w].table, call[w].key)

C13_OnePutPerGet ==
    /\ \A c \in Clients : pc[c] # "buf" => borrowed[c] = NoBuf
    /\ \A c \in Clients :
         pc[c] \in {"exit", "done"} =>
             /\ call[c].gets = call[c].puts
             /\ (call[c].gets = 1 /\ call[c].err # CodecError)
                   => call[c].back

C13_WitnessPutFails ==
    \E c \in Clients :
        /\ pc[c] = "done" /\ call[c].op = "Update"
        /\ call[c].err = EngineError
        /\ call[c].gets = 1 /\ call[c].puts = 1
        /\ call[c].back

\* C18: a finished Scan returns what a Scan of the content committed when
\* its transaction began returns: every record it holds comes from that
\* one committed state, whatever was written or rolled back meanwhile.
C18_ScanOneCommittedState ==
    \A r \in Clients :
        (pc[r] = "done" /\ call[r].op = "Scan") =>
            LET a == call[r]
                s == ScanFn(a.snap, a.table, a.key, a.count, a.fields,
                            a.fault)
            IN  /\ a.err = s.err
                /\ a.res = s.res
                /\ a.seen = s.seen

\* A Scan of two records between whose two turns a write was committed.
C18_Witness ==
    \E r \in Clients :
        /\ pc[r] = "done" /\ call[r].op = "Scan" /\ call[r].err = ErrNil
        /\ call[r].mid
        /\ Len(call[r].seen) = 2
        /\ buckets # call[r].snap

\* C19: when two Update calls on the same table and key with no field name
\* in common, one called while the other was in progress, have both
\* returned no error, the stored record has the value of each of them for
\* each of its names.
C19_NoLostUpdate ==
    \A c, d \in Clients :
        (/\ c # d /\ (call[c].conc = d \/ call[d].conc = c)
         /\ pc[c] = "done" /\ pc[d] = "done"
         /\ call[c].op = "Update" /\ call[d].op = "Update"
         /\ call[c].err = ErrNil /\ call[d].err = ErrNil
         /\ call[c].table = call[d].table /\ call[c].key = call[d].key
         /\ DOMAIN call[c].values \cap DOMAIN call[d].values = {}) =>
            LET now == Stored(buckets, call[c].table, call[c].key)
            IN  /\ now.err = ErrNil
                /\ \A f \in DOMAIN call[c].values :
                     /\ f \in DOMAIN now.m[1]
                     /\ now.m[1][f] = call[c].values[f]

\* Two such Updates, one of which was called while the other held the
\* read-write transaction.
C19_Witness ==
    \E c, d \in Clients :
        /\ c # d
        /\ pc[c] = "done" /\ pc[d] = "done"
        /\ call[c].op = "Update" /\ call[d].op = "Update"
        /\ call[c].err = ErrNil /\ call[d].err = ErrNil
        /\ call[c].key = call[d].key
        /\ DOMAIN call[c].values \cap DOMAIN call[d].values = {}
        /\ call[d].conc = c /\ call[d].blocked
        /\ call[d].snap # call[c].snap

\* C20: at most one thread holds a pooled buffer, the one that holds the
\* read-write transaction; and a buffer that was handed to the engine by
\* Put in a transaction not yet committed or rolled back is held by no
\* other thread.
C20_PendingBufferNotReacquired ==
    /\ \A c, d \in Clients :
         c # d => ~(borrowed[c] # NoBuf /\ borrowed[d] # NoBuf)
    /\ \A c \in Clients : borrowed[c] # NoBuf => writer = c
    /\ \A c, d \in Clients :
         (c # d /\ pending[d] # NoBuf) => borrowed[c] # pending[d]

\* A buffer is back in the pool while the transaction that wrote it is
\* not yet committed, and another Insert or Update is waiting to begin.
C20_Witness ==
    \E c, d \in Clients :
        /\ c # d
        /\ pending[d] # NoBuf /\ pc[d] = "exit"
        /\ pending[d] \in PoolFree
        /\ pc[c] = "called" /\ call[c].op \in {"Insert", "Update"}

====
